---- MODULE Spec2Model ----
(***************************************************************************)
(* Model of OmniHumanNode.generate_authorization_header                    *)
(* (src/nodes/omni_human/__init__.py): the AWS-SigV4-style request signer. *)
(*                                                                         *)
(* A Python str / bytes value is a sequence of one-character strings.      *)
(* SHA-256 and HMAC-SHA256 are symbolic and collision-free: a digest is    *)
(* the bracketed term of its inputs, so two digests are equal exactly when *)
(* their inputs are.  A dict is the sequence of its <<key, value>> items   *)
(* in insertion order, keys pairwise distinct.                             *)
(***************************************************************************)
EXTENDS Integers, Sequences, FiniteSets, TLC

VARIABLES access_key_id, secret_access_key, clock, ticks, req, hdrs0, hdrs,
          pc, frame, calls

vars == <<access_key_id, secret_access_key, clock, ticks, req, hdrs0, hdrs,
          pc, frame, calls>>

\* Number of clock ticks the wall clock may make during a run.
MaxTicks == 1

\* The concurrent calls of generate_authorization_header.
Threads == {1, 2}

-----------------------------------------------------------------------------
(* Characters and Python's str primitives *)

\* ord(c) of the characters used by the model.
CodeTable ==
  ("\t" :> 9) @@ ("\n" :> 10) @@ (" " :> 32) @@ ("%" :> 37) @@ ("&" :> 38) @@
  ("," :> 44) @@ ("-" :> 45) @@ ("." :> 46) @@ ("/" :> 47) @@
  ("0" :> 48) @@ ("1" :> 49) @@ ("2" :> 50) @@ ("3" :> 51) @@ ("4" :> 52) @@
  ("5" :> 53) @@ ("6" :> 54) @@ ("7" :> 55) @@ ("8" :> 56) @@ ("9" :> 57) @@
  (":" :> 58) @@ (";" :> 59) @@ ("=" :> 61) @@
  ("A" :> 65) @@ ("B" :> 66) @@ ("C" :> 67) @@ ("D" :> 68) @@ ("E" :> 69) @@
  ("F" :> 70) @@ ("G" :> 71) @@ ("H" :> 72) @@ ("K" :> 75) @@ ("M" :> 77) @@
  ("O" :> 79) @@ ("P" :> 80) @@ ("S" :> 83) @@ ("T" :> 84) @@ ("W" :> 87) @@
  ("Z" :> 90) @@ ("_" :> 95) @@
  ("a" :> 97) @@ ("b" :> 98) @@ ("c" :> 99) @@ ("d" :> 100) @@ ("e" :> 101) @@
  ("g" :> 103) @@ ("h" :> 104) @@ ("i" :> 105) @@ ("j" :> 106) @@
  ("k" :> 107) @@ ("l" :> 108) @@ ("m" :> 109) @@ ("n" :> 110) @@
  ("o" :> 111) @@ ("p" :> 112) @@ ("q" :> 113) @@ ("r" :> 114) @@
  ("s" :> 115) @@ ("t" :> 116) @@ ("u" :> 117) @@ ("v" :> 118) @@
  ("w" :> 119) @@ ("x" :> 120) @@ ("y" :> 121) @@ ("z" :> 122) @@
  ("{" :> 123) @@ ("}" :> 125)

Ord(c) == CodeTable[c]

Chr(n) == CHOOSE c \in DOMAIN CodeTable : CodeTable[c] = n

Min(a, b) == IF a < b THEN a ELSE b

\* str.__lt__: code-point lexicographic order.
StrLess(a, b) ==
  LET n == Min(Len(a), Len(b))
      D == {i \in 1..n : a[i] # b[i]}
  IN  IF D = {} THEN Len(a) < Len(b)
      ELSE LET i == CHOOSE j \in D : \A k \in D : j <= k
           IN  Ord(a[i]) < Ord(b[i])

\* tuple.__lt__ on tuples of str: lexicographic over the elements.
TupleLess(a, b) ==
  LET n == Min(Len(a), Len(b))
      D == {i \in 1..n : a[i] # b[i]}
  IN  IF D = {} THEN Len(a) < Len(b)
      ELSE LET i == CHOOSE j \in D : \A k \in D : j <= k
           IN  StrLess(a[i], b[i])

\* str.lower()
LowerChar(c) ==
  IF Ord(c) >= 65 /\ Ord(c) <= 90 THEN Chr(Ord(c) + 32) ELSE c

Lower(s) == [i \in 1..Len(s) |-> LowerChar(s[i])]

\* The characters str.strip() removes.
Whitespace == {" ", "\t", "\n", "\r", "\f"}

\* str.strip()
Strip(s) ==
  LET N == {i \in 1..Len(s) : s[i] \notin Whitespace}
  IN  IF N = {} THEN << >>
      ELSE SubSeq(s, CHOOSE i \in N : \A j \in N : i <= j,
                     CHOOSE i \in N : \A j \in N : i >= j)

\* str.split(sep): the parts between the non-overlapping occurrences of sep,
\* taken from the left.  Hits are the positions where sep occurs; SplitAt
\* cuts at the first one not before `start` and goes on after it.
RECURSIVE SplitAt(_, _, _, _)
SplitAt(s, n, Hits, start) ==
  LET H == {i \in Hits : i >= start}
  IN  IF H = {} THEN <<SubSeq(s, start, Len(s))>>
      ELSE LET i == CHOOSE j \in H : \A k \in H : j <= k
           IN  <<SubSeq(s, start, i - 1)>> \o SplitAt(s, n, H, i + n)

Split(s, sep) ==
  LET n == Len(sep)
  IN  SplitAt(s, n,
              {i \in 1..(Len(s) - n + 1) : \A k \in 1..n : s[i + k - 1] = sep[k]},
              1)

\* sep.join(parts)
RECURSIVE Join(_, _)
Join(sep, parts) ==
  IF parts = << >> THEN << >>
  ELSE IF Len(parts) = 1 THEN parts[1]
  ELSE parts[1] \o sep \o Join(sep, Tail(parts))

\* "".join(parts)
RECURSIVE Concat(_)
Concat(parts) ==
  IF parts = << >> THEN << >> ELSE parts[1] \o Concat(Tail(parts))

HexDigits == <<"0", "1", "2", "3", "4", "5", "6", "7", "8", "9", "A", "B", "C", "D", "E", "F">>

\* The characters urllib.parse.quote never encodes (safe='' adds none).
Unreserved ==
  {c \in DOMAIN CodeTable :
     \/ Ord(c) >= 48 /\ Ord(c) <= 57
     \/ Ord(c) >= 65 /\ Ord(c) <= 90
     \/ Ord(c) >= 97 /\ Ord(c) <= 122
     \/ c \in {"_", ".", "-", "~"}}

QuoteChar(c) ==
  IF c \in Unreserved THEN <<c>>
  ELSE <<"%", HexDigits[(Ord(c) \div 16) + 1], HexDigits[(Ord(c) % 16) + 1]>>

\* urllib.parse.quote(s, safe='')
Quote(s) == Concat([i \in 1..Len(s) |-> QuoteChar(s[i])])

\* str.encode("utf-8"): every character of the model is ASCII, one byte each
\* with the value of its code point; so are the hex digits a digest's
\* symbolic tokens stand for.
AsciiByte == [c \in DOMAIN CodeTable |-> Chr(Ord(c))]

Utf8(s) ==
  [i \in 1..Len(s) |->
     IF s[i] \in DOMAIN AsciiByte THEN AsciiByte[s[i]] ELSE s[i]]

-----------------------------------------------------------------------------
(* dict and sorted *)

DictKeys(d) == {d[i][1] : i \in 1..Len(d)}

\* d[k]
DictGet(d, k) == d[CHOOSE i \in 1..Len(d) : d[i][1] = k][2]

\* d[k] = v: an existing key keeps its position, a new key goes last.
DictSet(d, k, v) ==
  IF k \in DictKeys(d)
  THEN [i \in 1..Len(d) |-> IF d[i][1] = k THEN <<k, v>> ELSE d[i]]
  ELSE Append(d, <<k, v>>)

\* One step of the stable sort: x goes after every element whose key is not
\* greater than its own.
InsertByKey(sorted, x) ==
  LET p == Cardinality({i \in 1..Len(sorted) : ~TupleLess(x.key, sorted[i].key)})
  IN  SubSeq(sorted, 1, p) \o <<x>> \o SubSeq(sorted, p + 1, Len(sorted))

RECURSIVE SortKeyed(_)
SortKeyed(xs) ==
  IF xs = << >> THEN << >>
  ELSE InsertByKey(SortKeyed(SubSeq(xs, 1, Len(xs) - 1)), xs[Len(xs)])

\* Mutant of SortedItems: the items are left in insertion order.
SortedItems_Unsorted(d) == d

\* sorted(d.items()): items compare as tuples (key, value).
SortedItems(d) ==
  LET s == SortKeyed([i \in 1..Len(d) |-> [item |-> d[i], key |-> d[i]]])
  IN  [i \in 1..Len(s) |-> s[i].item]

\* Mutant of SortedItemsByLowerKey: the sort key is the name as given.
SortedItemsByLowerKey_CaseSensitive(d) == SortedItems(d)

\* sorted(d.items(), key=lambda x: x[0].lower())
SortedItemsByLowerKey(d) ==
  LET s == SortKeyed([i \in 1..Len(d) |->
                        [item |-> d[i], key |-> <<Lower(d[i][1])>>]])
  IN  [i \in 1..Len(s) |-> s[i].item]

-----------------------------------------------------------------------------
(* hashlib / hmac, symbolic *)

\* hashlib.sha256(data).digest()
Sha256(data) == <<"sha256[">> \o data \o <<"]">>

\* hmac.new(key, data, hashlib.sha256).digest()
HmacSha256(key, data) == <<"hmac[">> \o key \o <<"|">> \o data \o <<"]">>

\* bytes.hex() / hexdigest(): the lower-case hex rendering of a digest.
Hex(digest) == <<"hex[">> \o digest \o <<"]">>

-----------------------------------------------------------------------------
(* datetime *)

DigitChars == <<"0", "1", "2", "3", "4", "5", "6", "7", "8", "9">>

\* %0wd
RECURSIVE Pad(_, _)
Pad(n, w) ==
  IF w = 0 THEN << >> ELSE Pad(n \div 10, w - 1) \o <<DigitChars[(n % 10) + 1]>>

\* dt.strftime("%Y%m%dT%H%M%SZ")
GetAmzDate(dt) ==
  Pad(dt.Y, 4) \o Pad(dt.M, 2) \o Pad(dt.D, 2) \o <<"T">> \o
  Pad(dt.h, 2) \o Pad(dt.m, 2) \o Pad(dt.s, 2) \o <<"Z">>

\* dt.strftime("%Y%m%d")
GetDateStamp(dt) == Pad(dt.Y, 4) \o Pad(dt.M, 2) \o Pad(dt.D, 2)

DaysInMonth(Y, M) ==
  IF M = 2 THEN (IF Y % 4 = 0 /\ (Y % 100 # 0 \/ Y % 400 = 0) THEN 29 ELSE 28)
  ELSE IF M \in {4, 6, 9, 11} THEN 30 ELSE 31

\* The wall clock one second later.
NextSecond(dt) ==
  IF dt.s < 59 THEN [dt EXCEPT !.s = @ + 1]
  ELSE IF dt.m < 59 THEN [dt EXCEPT !.s = 0, !.m = @ + 1]
  ELSE IF dt.h < 23 THEN [dt EXCEPT !.s = 0, !.m = 0, !.h = @ + 1]
  ELSE IF dt.D < DaysInMonth(dt.Y, dt.M)
       THEN [dt EXCEPT !.s = 0, !.m = 0, !.h = 0, !.D = @ + 1]
  ELSE IF dt.M < 12
       THEN [dt EXCEPT !.s = 0, !.m = 0, !.h = 0, !.D = 1, !.M = @ + 1]
  ELSE [dt EXCEPT !.s = 0, !.m = 0, !.h = 0, !.D = 1, !.M = 1, !.Y = @ + 1]

\* The wall clock when the calls start: one second before a new year.
StartTime == [Y |-> 2024, M |-> 12, D |-> 31, h |-> 23, m |-> 59, s |-> 59]

NoTime == [Y |-> 0, M |-> 0, D |-> 0, h |-> 0, m |-> 0, s |-> 0]

-----------------------------------------------------------------------------
(* OmniHumanNode: class constants and the signing helpers *)

SERVICE == <<"c", "v">>
REGION == <<"a", "p", "-", "s", "i", "n", "g", "a", "p", "o", "r", "e", "-", "1">>

\* An Optional[str] attribute: None, or a str.
None == [isNone |-> TRUE, s |-> << >>]
Str(s) == [isNone |-> FALSE, s |-> s]

\* Python truthiness of an Optional[str]: `not x`.
Not(x) == x.isNone \/ x.s = << >>

\* Mutant of GetSigningKey: the service step is taken before the region step.
GetSigningKey_ServiceBeforeRegion(secret_key, date_stamp, region, service) ==
  LET k_date    == HmacSha256(Utf8(<<"A", "W", "S", "4">> \o secret_key), Utf8(date_stamp))
      k_service == HmacSha256(k_date, Utf8(service))
      k_region  == HmacSha256(k_service, Utf8(region))
      k_signing == HmacSha256(k_region, <<"a", "w", "s", "4", "_", "r", "e", "q", "u", "e", "s", "t">>)
  IN  k_signing

\* _get_signing_key
GetSigningKey(secret_key, date_stamp, region, service) ==
  LET k_date    == HmacSha256(Utf8(<<"A", "W", "S", "4">> \o secret_key), Utf8(date_stamp))
      k_region  == HmacSha256(k_date, Utf8(region))
      k_service == HmacSha256(k_region, Utf8(service))
      k_signing == HmacSha256(k_service, <<"a", "w", "s", "4", "_", "r", "e", "q", "u", "e", "s", "t">>)
  IN  k_signing

\* Mutant of CanonicalHeaders: the header values are left out of the block.
CanonicalHeaders_NamesOnly(headers) ==
  LET sorted_headers == SortedItems(headers)
  IN  Concat([i \in 1..Len(sorted_headers) |->
                Lower(sorted_headers[i][1]) \o <<":">> \o <<"\n">>])

\* _create_canonical_request: the canonical header block.
CanonicalHeaders(headers) ==
  LET sorted_headers == SortedItems(headers)
  IN  Concat([i \in 1..Len(sorted_headers) |->
                Lower(sorted_headers[i][1]) \o <<":">> \o
                Strip(sorted_headers[i][2]) \o <<"\n">>])

\* _create_canonical_request: its signed-headers list.
CanonicalSignedHeaders(headers) ==
  LET sorted_headers == SortedItems(headers)
  IN  Join(<<";">>, [i \in 1..Len(sorted_headers) |-> Lower(sorted_headers[i][1])])

\* _create_canonical_request
CreateCanonicalRequest(method, uri, query_string, headers, payload_hash) ==
  method \o <<"\n">> \o
  uri \o <<"\n">> \o
  query_string \o <<"\n">> \o
  CanonicalHeaders(headers) \o <<"\n">> \o
  CanonicalSignedHeaders(headers) \o <<"\n">> \o
  payload_hash

\* _create_string_to_sign
CreateStringToSign(algorithm, amz_date, date_stamp, region, service, canonical_request) ==
  LET credential_scope ==
        date_stamp \o <<"/">> \o region \o <<"/">> \o service \o <<"/", "a", "w", "s", "4", "_", "r", "e", "q", "u", "e", "s", "t">>
  IN  algorithm \o <<"\n">> \o
      amz_date \o <<"\n">> \o
      credential_scope \o <<"\n">> \o
      Hex(Sha256(Utf8(canonical_request)))

\* generate_authorization_header: uri.split("://")[1].split("/")[0]
HasScheme(uri) == Len(Split(uri, <<":", "/", "/">>)) >= 2

\* Mutant of HostOf: the path is not cut off.
HostOf_KeepsPath(uri) == Split(uri, <<":", "/", "/">>)[2]

HostOf(uri) == Split(Split(uri, <<":", "/", "/">>)[2], <<"/">>)[1]

\* generate_authorization_header: the query string.
QueryString(query_params) ==
  LET sorted_params == SortedItems(query_params)
  IN  Join(<<"&">>, [i \in 1..Len(sorted_params) |->
                   Quote(sorted_params[i][1]) \o <<"=">> \o
                   Quote(sorted_params[i][2])])

\* generate_authorization_header: the SignedHeaders= list.
SignedHeaders(headers) ==
  LET s == SortedItemsByLowerKey(headers)
  IN  Join(<<";">>, [i \in 1..Len(s) |-> Lower(s[i][1])])

ALGORITHM == <<"H", "M", "A", "C", "-", "S", "H", "A", "2", "5", "6">>

\* generate_authorization_header: the Credential= value.
Credential(access_key, date_stamp) ==
  access_key \o <<"/">> \o date_stamp \o <<"/">> \o REGION \o <<"/">> \o SERVICE \o
  <<"/", "r", "e", "q", "u", "e", "s", "t">>

\* generate_authorization_header: the returned string.
Authorization(algorithm, credential, signed_headers, signature_hex) ==
  algorithm \o <<" ", "C", "r", "e", "d", "e", "n", "t", "i", "a", "l", "=">> \o credential \o <<",", " ">> \o
  <<"S", "i", "g", "n", "e", "d", "H", "e", "a", "d", "e", "r", "s", "=">> \o signed_headers \o <<",", " ">> \o
  <<"S", "i", "g", "n", "a", "t", "u", "r", "e", "=">> \o signature_hex

\* generate_authorization_header run from entry to return on its own, past the
\* credential guard, with `now` the clock reading: the returned header and the
\* mapping it leaves behind.
GenerateAuthorizationHeader(access_key, secret_key, r, headers0, now) ==
  LET amz_date     == GetAmzDate(now)
      date_stamp   == GetDateStamp(now)
      headers      == DictSet(DictSet(headers0, <<"h", "o", "s", "t">>, HostOf(r.uri)),
                              <<"x", "-", "a", "m", "z", "-", "d", "a", "t", "e">>, amz_date)
      payload_hash == Hex(Sha256(Utf8(r.payload)))
      query_string == QueryString(r.query_params)
      canonical_request ==
        CreateCanonicalRequest(r.method, r.uri, query_string, headers,
                               payload_hash)
      string_to_sign ==
        CreateStringToSign(ALGORITHM, amz_date, date_stamp, REGION, SERVICE,
                           canonical_request)
      signing_key   == GetSigningKey(secret_key, date_stamp, REGION, SERVICE)
      signature_hex == Hex(HmacSha256(signing_key, Utf8(string_to_sign)))
  IN  [result  |-> Authorization(ALGORITHM, Credential(access_key, date_stamp),
                                 SignedHeaders(headers), signature_hex),
       headers |-> headers]

-----------------------------------------------------------------------------
(* The requests the callers sign *)

URI_PATH == <<"h", "t", "t", "p", "s", ":", "/", "/", "c", "v", ".", "b", "y", "t", "e", "p", "l", "u", "s", "a", "p", "i", ".", "c", "o", "m", "/", "p", "a", "t", "h">>

Methods == <<<<"G", "E", "T">>, <<"P", "O", "S", "T">>>>

\* A uri with a path, one without a path, one without a scheme.
Uris == <<URI_PATH, <<"h", "t", "t", "p", "s", ":", "/", "/", "c", "v", ".", "b", "y", "t", "e", "p", "l", "u", "s", "a", "p", "i", ".", "c", "o", "m">>, <<"c", "v", ".", "b", "y", "t", "e", "p", "l", "u", "s", "a", "p", "i", ".", "c", "o", "m", "/", "p", "a", "t", "h">>>>

HeaderMaps ==
  << << >>,
     << <<<<"B">>, <<"1">>>>, <<<<"a">>, <<"2">>>> >>,
     << <<<<"a">>, <<"2">>>>, <<<<"B">>, <<"1">>>> >>,
     << <<<<"B">>, <<"1">>>>, <<<<"a">>, <<"3">>>> >>,
     << <<<<"B">>, <<"1">>>>, <<<<"a">>, <<"2", " ">>>> >>,
     << <<<<"B">>, <<"1">>>>, <<<<"a">>, <<"2", "\t">>>> >>,
     << <<<<"A">>, <<"1">>>>, <<<<"a">>, <<"2">>>> >>,
     << <<<<"a">>, <<"2">>>>, <<<<"A">>, <<"1">>>> >>,
     << <<<<"h", "o", "s", "t">>, <<"x">>>> >>,
     << <<<<"h", "o", "s", "t">>, <<"y">>>> >>,
     << <<<<"H", "o", "s", "t">>, <<"x">>>> >>,
     << <<<<"x", "-", "a", "m", "z", "-", "d", "a", "t", "e">>, <<"1">>>>, <<<<"a">>, <<"2">>>> >>,
     << <<<<"x", "-", "a", "m", "z", "-", "d", "a", "t", "e">>, <<"2">>>>, <<<<"a">>, <<"2">>>> >> >>

QueryMaps ==
  << << >>,
     << <<<<"k">>, <<"v">>>>, <<<<"j">>, <<"w">>>> >>,
     << <<<<"j">>, <<"w">>>>, <<<<"k">>, <<"v">>>> >>,
     << <<<<"k">>, <<"x">>>>, <<<<"j">>, <<"w">>>> >>,
     << <<<<"k">>, <<"a", " ", "b">>>> >>,
     << <<<<"k">>, <<"a", "&", "b">>>> >> >>

Payloads == <<<<"{", "}">>, <<"{", "a", "}">>, <<"{", "b", "}">>>>

Request(method, uri, query_params, headers, payload) ==
  [method |-> method, uri |-> uri, query_params |-> query_params,
   headers |-> headers, payload |-> payload]

\* The requests signed, in a fixed order.  Every request differs from the
\* known-vector request (GET, no query, no headers, empty payload) in at most
\* one argument.
Requests ==
  [i \in 1..Len(Methods) |->
     Request(Methods[i], URI_PATH, << >>, << >>, << >>)] \o
  [i \in 1..Len(Uris) |->
     Request(<<"G", "E", "T">>, Uris[i], << >>, << >>, << >>)] \o
  [i \in 1..Len(QueryMaps) |->
     Request(<<"G", "E", "T">>, URI_PATH, QueryMaps[i], << >>, << >>)] \o
  [i \in 1..Len(HeaderMaps) |->
     Request(<<"G", "E", "T">>, URI_PATH, << >>, HeaderMaps[i], << >>)] \o
  [i \in 1..Len(Payloads) |->
     Request(<<"G", "E", "T">>, URI_PATH, << >>, << >>, Payloads[i])]

Arguments == {"method", "uri", "query_params", "headers", "payload"}

\* Two requests that differ in at most one argument.
Related(r1, r2) == Cardinality({a \in Arguments : r1[a] # r2[a]}) <= 1

\* The values the two credential attributes take: unset, empty, set.
AccessKeys == {None, Str(<< >>), Str(<<"A", "K", "I", "D">>)}
SecretKeys == {None, Str(<< >>), Str(<<"t", "e", "s", "t", "s", "e", "c", "r", "e", "t">>)}

-----------------------------------------------------------------------------
(* State *)

NoFrame ==
  [now |-> NoTime, amz_date |-> << >>, date_stamp |-> << >>,
   payload_hash |-> << >>, query_string |-> << >>,
   canonical_request |-> << >>, string_to_sign |-> << >>,
   signing_key |-> << >>, signature_hex |-> << >>, result |-> << >>]

NoCalls == [sha256 |-> 0, hmac |-> 0, utcnow |-> 0]

\* __init__ leaves both credentials None; the caller assigns them (or not)
\* before signing.  Each call holds its own header mapping.  The two calls
\* sign requests that differ in at most one argument; the calls being
\* interchangeable, call 1 takes the request listed first.
Init ==
  /\ access_key_id \in AccessKeys
  /\ secret_access_key \in SecretKeys
  /\ clock = StartTime
  /\ ticks = 0
  /\ \E i, j \in 1..Len(Requests) :
       LET r == <<Requests[i], Requests[j]>>
       IN
       /\ i <= j
       /\ Related(r[1], r[2])
       /\ req = [t \in Threads |->
                   [method |-> r[t].method, uri |-> r[t].uri,
                    query_params |-> r[t].query_params,
                    payload |-> r[t].payload]]
       /\ hdrs0 = [t \in Threads |-> r[t].headers]
       /\ hdrs = [t \in Threads |-> r[t].headers]
  /\ pc = [t \in Threads |-> "check"]
  /\ frame = [t \in Threads |-> NoFrame]
  /\ calls = [t \in Threads |-> NoCalls]

\* The wall clock advances.
Tick ==
  /\ ticks < MaxTicks
  /\ ticks' = ticks + 1
  /\ clock' = NextSecond(clock)
  /\ UNCHANGED <<access_key_id, secret_access_key, req, hdrs0, hdrs, pc,
                 frame, calls>>

\* Mutant of CheckCredentials: only the secret is checked.
CheckCredentials_SecretOnly(t) ==
  /\ pc[t] = "check"
  /\ pc' = [pc EXCEPT ![t] =
              IF Not(secret_access_key) THEN "raised" ELSE "utcnow"]
  /\ UNCHANGED <<access_key_id, secret_access_key, clock, ticks, req, hdrs0,
                 hdrs, frame, calls>>

\* Mutant of CheckCredentials: the host header is injected before the guard.
CheckCredentials_AfterInjection(t) ==
  /\ pc[t] = "check"
  /\ hdrs' = [hdrs EXCEPT ![t] =
                IF HasScheme(req[t].uri)
                THEN DictSet(@, <<"h", "o", "s", "t">>, HostOf(req[t].uri)) ELSE @]
  /\ pc' = [pc EXCEPT ![t] =
              IF Not(secret_access_key) \/ Not(access_key_id)
              THEN "raised" ELSE "utcnow"]
  /\ UNCHANGED <<access_key_id, secret_access_key, clock, ticks, req, hdrs0,
                 frame, calls>>

\* lines 146-149: the credential guard.
CheckCredentials(t) ==
  /\ pc[t] = "check"
  /\ pc' = [pc EXCEPT ![t] =
              IF Not(secret_access_key) \/ Not(access_key_id)
              THEN "raised" ELSE "utcnow"]
  /\ UNCHANGED <<access_key_id, secret_access_key, clock, ticks, req, hdrs0,
                 hdrs, frame, calls>>

\* lines 152-154: read the clock, format both dates.
ReadClock(t) ==
  /\ pc[t] = "utcnow"
  /\ frame' = [frame EXCEPT ![t].now = clock,
                            ![t].amz_date = GetAmzDate(clock),
                            ![t].date_stamp = GetDateStamp(clock)]
  /\ calls' = [calls EXCEPT ![t].utcnow = @ + 1]
  /\ pc' = [pc EXCEPT ![t] = "host"]
  /\ UNCHANGED <<access_key_id, secret_access_key, clock, ticks, req, hdrs0,
                 hdrs>>

\* line 157: headers["host"] = ...; IndexError when the uri has no "://".
SetHost(t) ==
  /\ pc[t] = "host"
  /\ IF HasScheme(req[t].uri)
     THEN /\ hdrs' = [hdrs EXCEPT ![t] = DictSet(@, <<"h", "o", "s", "t">>, HostOf(req[t].uri))]
          /\ pc' = [pc EXCEPT ![t] = "x_amz_date"]
     ELSE /\ hdrs' = hdrs
          /\ pc' = [pc EXCEPT ![t] = "index_error"]
  /\ UNCHANGED <<access_key_id, secret_access_key, clock, ticks, req, hdrs0,
                 frame, calls>>

\* line 158: headers["x-amz-date"] = amz_date
SetDate(t) ==
  /\ pc[t] = "x_amz_date"
  /\ hdrs' = [hdrs EXCEPT ![t] = DictSet(@, <<"x", "-", "a", "m", "z", "-", "d", "a", "t", "e">>, frame[t].amz_date)]
  /\ pc' = [pc EXCEPT ![t] = "payload_hash"]
  /\ UNCHANGED <<access_key_id, secret_access_key, clock, ticks, req, hdrs0,
                 frame, calls>>

\* lines 161-167: the payload hash and the query string.
HashPayload(t) ==
  /\ pc[t] = "payload_hash"
  /\ frame' = [frame EXCEPT
                 ![t].payload_hash = Hex(Sha256(Utf8(req[t].payload))),
                 ![t].query_string = QueryString(req[t].query_params)]
  /\ calls' = [calls EXCEPT ![t].sha256 = @ + 1]
  /\ pc' = [pc EXCEPT ![t] = "canonical_request"]
  /\ UNCHANGED <<access_key_id, secret_access_key, clock, ticks, req, hdrs0,
                 hdrs>>

\* Mutant of BuildCanonicalRequest: all calls share the first call's mapping.
BuildCanonicalRequest_SharedMapping(t) ==
  /\ pc[t] = "canonical_request"
  /\ frame' = [frame EXCEPT ![t].canonical_request =
                 CreateCanonicalRequest(req[t].method, req[t].uri,
                                        frame[t].query_string, hdrs[1],
                                        frame[t].payload_hash)]
  /\ pc' = [pc EXCEPT ![t] = "string_to_sign"]
  /\ UNCHANGED <<access_key_id, secret_access_key, clock, ticks, req, hdrs0,
                 hdrs, calls>>

\* lines 170-172: the canonical request, over the full uri as passed in.
BuildCanonicalRequest(t) ==
  /\ pc[t] = "canonical_request"
  /\ frame' = [frame EXCEPT ![t].canonical_request =
                 CreateCanonicalRequest(req[t].method, req[t].uri,
                                        frame[t].query_string, hdrs[t],
                                        frame[t].payload_hash)]
  /\ pc' = [pc EXCEPT ![t] = "string_to_sign"]
  /\ UNCHANGED <<access_key_id, secret_access_key, clock, ticks, req, hdrs0,
                 hdrs, calls>>

\* lines 175-183
BuildStringToSign(t) ==
  /\ pc[t] = "string_to_sign"
  /\ frame' = [frame EXCEPT ![t].string_to_sign =
                 CreateStringToSign(ALGORITHM, frame[t].amz_date,
                                    frame[t].date_stamp, REGION, SERVICE,
                                    frame[t].canonical_request)]
  /\ calls' = [calls EXCEPT ![t].sha256 = @ + 1]
  /\ pc' = [pc EXCEPT ![t] = "signing_key"]
  /\ UNCHANGED <<access_key_id, secret_access_key, clock, ticks, req, hdrs0,
                 hdrs>>

\* Mutant of DeriveSigningKey: the date stamp comes from a second clock reading.
DeriveSigningKey_RereadsClock(t) ==
  /\ pc[t] = "signing_key"
  /\ frame' = [frame EXCEPT ![t].signing_key =
                 GetSigningKey(secret_access_key.s, GetDateStamp(clock),
                               REGION, SERVICE)]
  /\ calls' = [calls EXCEPT ![t].hmac = @ + 4, ![t].utcnow = @ + 1]
  /\ pc' = [pc EXCEPT ![t] = "signature"]
  /\ UNCHANGED <<access_key_id, secret_access_key, clock, ticks, req, hdrs0,
                 hdrs>>

\* lines 186-188
DeriveSigningKey(t) ==
  /\ pc[t] = "signing_key"
  /\ frame' = [frame EXCEPT ![t].signing_key =
                 GetSigningKey(secret_access_key.s, frame[t].date_stamp,
                               REGION, SERVICE)]
  /\ calls' = [calls EXCEPT ![t].hmac = @ + 4]
  /\ pc' = [pc EXCEPT ![t] = "signature"]
  /\ UNCHANGED <<access_key_id, secret_access_key, clock, ticks, req, hdrs0,
                 hdrs>>

\* lines 191-192
Sign(t) ==
  /\ pc[t] = "signature"
  /\ frame' = [frame EXCEPT ![t].signature_hex =
                 Hex(HmacSha256(frame[t].signing_key,
                                Utf8(frame[t].string_to_sign)))]
  /\ calls' = [calls EXCEPT ![t].hmac = @ + 1]
  /\ pc' = [pc EXCEPT ![t] = "authorization"]
  /\ UNCHANGED <<access_key_id, secret_access_key, clock, ticks, req, hdrs0,
                 hdrs>>

\* lines 195-208: credential, SignedHeaders= list, the returned header.
Assemble(t) ==
  /\ pc[t] = "authorization"
  /\ frame' = [frame EXCEPT ![t].result =
                 Authorization(ALGORITHM,
                               Credential(access_key_id.s, frame[t].date_stamp),
                               SignedHeaders(hdrs[t]),
                               frame[t].signature_hex)]
  /\ pc' = [pc EXCEPT ![t] = "done"]
  /\ UNCHANGED <<access_key_id, secret_access_key, clock, ticks, req, hdrs0,
                 hdrs, calls>>

Next ==
  \/ Tick
  \/ \E t \in Threads :
       \/ CheckCredentials(t)
       \/ ReadClock(t)
       \/ SetHost(t)
       \/ SetDate(t)
       \/ HashPayload(t)
       \/ BuildCanonicalRequest(t)
       \/ BuildStringToSign(t)
       \/ DeriveSigningKey(t)
       \/ Sign(t)
       \/ Assemble(t)

Spec == Init /\ [][Next]_vars

-----------------------------------------------------------------------------
(* Vocabulary of the properties *)

Done(t) == pc[t] = "done"

Lines(s) == Split(s, <<"\n">>)

\* The text of `s` after the first `tag`, up to the next `stop`.
Field(s, tag, stop) == Split(Split(s, tag)[2], stop)[1]

SignatureOf(result) == Split(result, <<"S", "i", "g", "n", "a", "t", "u", "r", "e", "=">>)[2]

SignedHeadersField(result) == Field(result, <<"S", "i", "g", "n", "e", "d", "H", "e", "a", "d", "e", "r", "s", "=">>, <<",", " ", "S", "i", "g", "n", "a", "t", "u", "r", "e", "=">>)

CredentialField(result) == Field(result, <<"C", "r", "e", "d", "e", "n", "t", "i", "a", "l", "=">>, <<",", " ", "S", "i", "g", "n", "e", "d", "H", "e", "a", "d", "e", "r", "s", "=">>)

Missing(x) == x = None \/ x = Str(<< >>)

First(S) == CHOOSE i \in S : \A j \in S : i <= j

\* The authority of a scheme://host/path uri: what lies between the first
\* "://" and the next "/".
StripSchemeAndPath(uri) ==
  LET i    == First({j \in 1..Len(uri) - 2 : SubSeq(uri, j, j + 2) = <<":", "/", "/">>})
      rest == SubSeq(uri, i + 3, Len(uri))
      S    == {j \in 1..Len(rest) : rest[j] = "/"}
  IN  IF S = {} THEN rest ELSE SubSeq(rest, 1, First(S) - 1)

\* The path of a scheme://host/path uri: from the first "/" after the host.
UriPath(uri) ==
  LET i    == First({j \in 1..Len(uri) - 2 : SubSeq(uri, j, j + 2) = <<":", "/", "/">>})
      rest == SubSeq(uri, i + 3, Len(uri))
      S    == {j \in 1..Len(rest) : rest[j] = "/"}
  IN  IF S = {} THEN << >> ELSE SubSeq(rest, First(S), Len(rest))

RECURSIVE Num(_)
Num(s) ==
  IF s = << >> THEN 0
  ELSE 10 * Num(SubSeq(s, 1, Len(s) - 1)) + (Ord(s[Len(s)]) - 48)

\* x reads YYYYMMDDTHHMMSSZ and spells the instant dt.
IsTimestampOf(x, dt) ==
  /\ Len(x) = 16
  /\ x[9] = "T"
  /\ x[16] = "Z"
  /\ \A i \in (1..15) \ {9} : Ord(x[i]) >= 48 /\ Ord(x[i]) <= 57
  /\ Num(SubSeq(x, 1, 4)) = dt.Y
  /\ Num(SubSeq(x, 5, 6)) = dt.M
  /\ Num(SubSeq(x, 7, 8)) = dt.D
  /\ Num(SubSeq(x, 10, 11)) = dt.h
  /\ Num(SubSeq(x, 12, 13)) = dt.m
  /\ Num(SubSeq(x, 14, 15)) = dt.s

\* Two mappings with the same set of key/value pairs.
SameItems(d1, d2) ==
  /\ Len(d1) = Len(d2)
  /\ {d1[i] : i \in 1..Len(d1)} = {d2[i] : i \in 1..Len(d2)}

\* b is a with one character inserted.
OneInserted(a, b) ==
  /\ Len(b) = Len(a) + 1
  /\ \E i \in 1..Len(b) : a = SubSeq(b, 1, i - 1) \o SubSeq(b, i + 1, Len(b))

\* a and b differ in exactly one character: one replaced, added or removed.
OneCharApart(a, b) ==
  \/ Len(a) = Len(b) /\ Cardinality({i \in 1..Len(a) : a[i] # b[i]}) = 1
  \/ OneInserted(a, b)
  \/ OneInserted(b, a)

\* The entries of d1 and d2 whose values differ, d1 and d2 having the same
\* keys in the same order.
Changed(d1, d2) == {i \in 1..Len(d1) : d1[i][2] # d2[i][2]}

SameKeys(d1, d2) ==
  /\ Len(d1) = Len(d2)
  /\ \A i \in 1..Len(d1) : d1[i][1] = d2[i][1]

\* d1 and d2 differ in exactly one character of one value.
OneValueChanged(d1, d2) ==
  /\ SameKeys(d1, d2)
  /\ Cardinality(Changed(d1, d2)) = 1
  /\ \A i \in Changed(d1, d2) : OneCharApart(d1[i][2], d2[i][2])

\* Calls t and u both returned, having read the same timestamp.
BothDoneAtSameTime(t, u) ==
  /\ t # u
  /\ Done(t)
  /\ Done(u)
  /\ frame[t].now = frame[u].now

SameExcept(t, u, a) ==
  /\ \A b \in {"method", "uri", "query_params", "payload"} \ {a} :
       req[t][b] = req[u][b]
  /\ a # "headers" => hdrs0[t] = hdrs0[u]

-----------------------------------------------------------------------------
(* C1 *)

\* C1: whenever access_key_id or secret_access_key is empty or unset, a call
\* that has passed its first statement has raised the configuration error,
\* and no SHA-256 or HMAC-SHA256 has been invoked by it, whatever the request.
C1_MissingCredentialRaisesBeforeHashing ==
  \A t \in Threads :
    (Missing(access_key_id) \/ Missing(secret_access_key)) /\ pc[t] # "check"
      => /\ pc[t] = "raised"
         /\ calls[t].sha256 = 0
         /\ calls[t].hmac = 0

C1_Witness ==
  /\ access_key_id = Str(<<"A", "K", "I", "D">>)
  /\ secret_access_key = Str(<< >>)
  /\ pc[1] = "raised"
  /\ pc[2] = "raised"
  /\ req[1].method = <<"P", "O", "S", "T">>
  /\ req[2].method = <<"G", "E", "T">>

-----------------------------------------------------------------------------
(* C10 *)

\* C10: when the call fails with the missing-credentials error, the caller's
\* header mapping is exactly what it was before the call.
C10_RaiseLeavesHeadersUntouched ==
  \A t \in Threads : pc[t] = "raised" => hdrs[t] = hdrs0[t]

C10_Witness ==
  /\ pc[1] = "raised"
  /\ access_key_id = None
  /\ hdrs0[1] = << <<<<"B">>, <<"1">>>>, <<<<"a">>, <<"2">>>> >>
  /\ hdrs[1] = hdrs0[1]

-----------------------------------------------------------------------------
(* C2 *)

\* C2: after a successful call the caller's own mapping holds "host" = the uri
\* without scheme and path, "x-amz-date" = the call's timestamp as
\* YYYYMMDDTHHMMSSZ, and every other caller entry with its original value;
\* "https://cv.byteplusapi.com/path" gives host "cv.byteplusapi.com".
C2_HeadersInjectedInPlace ==
  \A t \in Threads :
    Done(t) =>
      /\ <<"h", "o", "s", "t">> \in DictKeys(hdrs[t])
      /\ DictGet(hdrs[t], <<"h", "o", "s", "t">>) = StripSchemeAndPath(req[t].uri)
      /\ req[t].uri = <<"h", "t", "t", "p", "s", ":", "/", "/", "c", "v", ".", "b", "y", "t", "e", "p", "l", "u", "s", "a", "p", "i", ".", "c", "o", "m", "/", "p", "a", "t", "h">>
           => DictGet(hdrs[t], <<"h", "o", "s", "t">>) = <<"c", "v", ".", "b", "y", "t", "e", "p", "l", "u", "s", "a", "p", "i", ".", "c", "o", "m">>
      /\ <<"x", "-", "a", "m", "z", "-", "d", "a", "t", "e">> \in DictKeys(hdrs[t])
      /\ IsTimestampOf(DictGet(hdrs[t], <<"x", "-", "a", "m", "z", "-", "d", "a", "t", "e">>), frame[t].now)
      /\ \A i \in 1..Len(hdrs0[t]) :
           hdrs0[t][i][1] \notin {<<"h", "o", "s", "t">>, <<"x", "-", "a", "m", "z", "-", "d", "a", "t", "e">>}
             => /\ hdrs0[t][i][1] \in DictKeys(hdrs[t])
                /\ DictGet(hdrs[t], hdrs0[t][i][1]) = hdrs0[t][i][2]

C2_Witness ==
  /\ Done(1)
  /\ req[1].uri = <<"h", "t", "t", "p", "s", ":", "/", "/", "c", "v", ".", "b", "y", "t", "e", "p", "l", "u", "s", "a", "p", "i", ".", "c", "o", "m", "/", "p", "a", "t", "h">>
  /\ hdrs0[1] = << <<<<"x", "-", "a", "m", "z", "-", "d", "a", "t", "e">>, <<"1">>>>, <<<<"a">>, <<"2">>>> >>
  /\ hdrs[1] = << <<<<"x", "-", "a", "m", "z", "-", "d", "a", "t", "e">>, <<"2", "0", "2", "5", "0", "1", "0", "1", "T", "0", "0", "0", "0", "0", "0", "Z">>>>, <<<<"a">>, <<"2">>>>,
                  <<<<"h", "o", "s", "t">>, <<"c", "v", ".", "b", "y", "t", "e", "p", "l", "u", "s", "a", "p", "i", ".", "c", "o", "m">>>> >>

-----------------------------------------------------------------------------
(* C3 *)

\* C3: for fixed credentials, method, uri, payload and timestamp, two calls
\* whose query_params (or whose headers) hold the same key/value pairs in a
\* different insertion order return the same Authorization header.
C3_InsertionOrderIrrelevant ==
  \A t, u \in Threads :
    /\ BothDoneAtSameTime(t, u)
    /\ req[t].method = req[u].method
    /\ req[t].uri = req[u].uri
    /\ req[t].payload = req[u].payload
    /\ SameItems(req[t].query_params, req[u].query_params)
    /\ SameItems(hdrs0[t], hdrs0[u])
    => frame[t].result = frame[u].result

C3_Witness ==
  /\ BothDoneAtSameTime(1, 2)
  /\ hdrs0[1] = << <<<<"B">>, <<"1">>>>, <<<<"a">>, <<"2">>>> >>
  /\ hdrs0[2] = << <<<<"a">>, <<"2">>>>, <<<<"B">>, <<"1">>>> >>
  /\ req[1] = req[2]
  /\ frame[1].result = frame[2].result

-----------------------------------------------------------------------------
(* C4 *)

\* The inputs of calls t and u differ in exactly one character of the
\* payload, of one query parameter value, or of one header value.
OneCharChange(t, u) ==
  \/ SameExcept(t, u, "payload") /\ OneCharApart(req[t].payload, req[u].payload)
  \/ /\ SameExcept(t, u, "query_params")
     /\ OneValueChanged(req[t].query_params, req[u].query_params)
  \/ SameExcept(t, u, "headers") /\ OneValueChanged(hdrs0[t], hdrs0[u])

\* The change is to a header value the signature does not cover: a value of
\* "host" or "x-amz-date", which the call overwrites, or a change that leaves
\* the trimmed value the same.
UnsignedHeaderChange(t, u) ==
  /\ SameExcept(t, u, "headers")
  /\ SameKeys(hdrs0[t], hdrs0[u])
  /\ \A i \in Changed(hdrs0[t], hdrs0[u]) :
       \/ hdrs0[t][i][1] \in {<<"h", "o", "s", "t">>, <<"x", "-", "a", "m", "z", "-", "d", "a", "t", "e">>}
       \/ Strip(hdrs0[t][i][2]) = Strip(hdrs0[u][i][2])

\* C4 as stated: for fixed credentials and timestamp, every single-character
\* change of the payload, a query value or a header value changes the
\* Signature= value, leading/trailing whitespace of a header value and
\* caller-supplied "host" / "x-amz-date" values included.
C4_AnySingleCharChangeChangesSignature ==
  \A t, u \in Threads :
    BothDoneAtSameTime(t, u) /\ OneCharChange(t, u)
      => SignatureOf(frame[t].result) # SignatureOf(frame[u].result)

\* C4 amended: a single-character change of the payload, a query value or a
\* header value changes the Signature= value, unless it is a change to the
\* caller-supplied value of "host" or "x-amz-date" or leaves the trimmed
\* header value the same.
C4_SignedSingleCharChangeChangesSignature ==
  \A t, u \in Threads :
    BothDoneAtSameTime(t, u) /\ OneCharChange(t, u)
      /\ ~UnsignedHeaderChange(t, u)
      => SignatureOf(frame[t].result) # SignatureOf(frame[u].result)

C4_Witness ==
  /\ BothDoneAtSameTime(1, 2)
  /\ hdrs0[1] = << <<<<"B">>, <<"1">>>>, <<<<"a">>, <<"2">>>> >>
  /\ hdrs0[2] = << <<<<"B">>, <<"1">>>>, <<<<"a">>, <<"3">>>> >>
  /\ OneCharChange(1, 2)
  /\ SignatureOf(frame[1].result) # SignatureOf(frame[2].result)

-----------------------------------------------------------------------------
(* C5 *)

\* The signed-headers line of a canonical request: its last line but one.
SignedHeadersLine(canonical_request) ==
  Lines(canonical_request)[Len(Lines(canonical_request)) - 1]

Count(x, xs) == Cardinality({i \in 1..Len(xs) : xs[i] = x})

SameBag(xs, ys) ==
  /\ Len(xs) = Len(ys)
  /\ \A i \in 1..Len(xs) : Count(xs[i], xs) = Count(xs[i], ys)

\* Position of key k among the keys of d in ascending code-point order.
Rank(k, d) == 1 + Cardinality({j \in DictKeys(d) : StrLess(j, k)})

\* C5: the canonical request's signed-headers line and the SignedHeaders=
\* field hold the same lower-cased names with the same multiplicity; the line
\* is in ascending order of the original-case names, the field in ascending
\* order of the lower-cased names.  Headers {"B": "1", "a": "2"} give the line
\* "b;a;host;x-amz-date" and the field "a;b;host;x-amz-date".
C5_SignedHeaderListsAgreeUpToOrder ==
  \A t \in Threads :
    Done(t) =>
      LET line  == Split(SignedHeadersLine(frame[t].canonical_request), <<";">>)
          field == Split(SignedHeadersField(frame[t].result), <<";">>)
      IN  /\ SameBag(line, field)
          /\ Len(line) = Len(hdrs[t])
          /\ \A k \in DictKeys(hdrs[t]) : line[Rank(k, hdrs[t])] = Lower(k)
          /\ \A i, j \in 1..Len(field) : i < j => ~StrLess(field[j], field[i])
          /\ hdrs0[t] = << <<<<"B">>, <<"1">>>>, <<<<"a">>, <<"2">>>> >>
               => /\ SignedHeadersLine(frame[t].canonical_request)
                       = <<"b", ";", "a", ";", "h", "o", "s", "t", ";", "x", "-", "a", "m", "z", "-", "d", "a", "t", "e">>
                  /\ SignedHeadersField(frame[t].result)
                       = <<"a", ";", "b", ";", "h", "o", "s", "t", ";", "x", "-", "a", "m", "z", "-", "d", "a", "t", "e">>

C5_Witness ==
  /\ Done(1)
  /\ hdrs0[1] = << <<<<"B">>, <<"1">>>>, <<<<"a">>, <<"2">>>> >>
  /\ SignedHeadersLine(frame[1].canonical_request)
       # SignedHeadersField(frame[1].result)

-----------------------------------------------------------------------------
(* C6 *)

\* C6: the canonical request that is hashed into the signature is method,
\* URI path (the uri without scheme and host), query string, header block
\* followed by a blank line, signed-headers list and payload hash, separated
\* by single newlines; its second segment is the path, not the full uri.
C6_CanonicalRequestCarriesUriPath ==
  \A t \in Threads :
    Done(t) =>
      /\ frame[t].canonical_request =
           Join(<<"\n">>, <<req[t].method,
                        UriPath(req[t].uri),
                        QueryString(req[t].query_params),
                        CanonicalHeaders(hdrs[t]),
                        CanonicalSignedHeaders(hdrs[t]),
                        Hex(Sha256(req[t].payload))>>)
      /\ Lines(frame[t].canonical_request)[2] = UriPath(req[t].uri)

-----------------------------------------------------------------------------
(* C7 *)

\* Every call that returned holds what it would have returned, and left its
\* mapping as it would have left it, had it run alone with its timestamp.
C7_AsIfAlone ==
  \A t \in Threads :
    Done(t) =>
      LET alone == GenerateAuthorizationHeader(access_key_id.s,
                                               secret_access_key.s, req[t],
                                               hdrs0[t], frame[t].now)
      IN  /\ frame[t].result = alone.result
          /\ hdrs[t] = alone.headers

\* A mapping changes only in a step of the call that owns it.
C7_OwnMappingOnly ==
  \A t \in Threads : hdrs'[t] # hdrs[t] => pc'[t] # pc[t] /\ pc[t] \in {"host", "x_amz_date"}

\* C7: concurrent calls on different mapping instances, credentials unchanged:
\* under every interleaving each call returns the same header and leaves its
\* own mapping in the same final state as if it had run alone with the same
\* timestamp, and no call writes another call's mapping.
C7_ConcurrentCallsIndependent == [](C7_AsIfAlone) /\ [][C7_OwnMappingOnly]_vars

\* Call 1 read the clock first, call 2 read it a tick later and overtook it.
C7_Witness ==
  /\ Done(2)
  /\ pc[1] = "authorization"
  /\ frame[1].now = StartTime
  /\ frame[2].now = NextSecond(StartTime)
  /\ hdrs0[1] # hdrs0[2]
  /\ hdrs[1] # hdrs[2]

-----------------------------------------------------------------------------
(* C8 *)

\* C8: a call reads the wall clock exactly once, and the x-amz-date header,
\* the timestamp line of the string-to-sign, the date of its credential scope,
\* the first message of the signing-key chain and the date of the Credential=
\* field all carry that one reading, the date stamp being the first eight
\* characters of the x-amz-date value.
C8_OneClockReading ==
  \A t \in Threads :
    Done(t) =>
      LET x == DictGet(hdrs[t], <<"x", "-", "a", "m", "z", "-", "d", "a", "t", "e">>)
          d == SubSeq(x, 1, 8)
          s == Lines(frame[t].string_to_sign)
      IN  /\ calls[t].utcnow = 1
          /\ IsTimestampOf(x, frame[t].now)
          /\ s[2] = x
          /\ Split(s[3], <<"/">>)[1] = d
          /\ LET k_date == <<"hmac[">> \o <<"A", "W", "S", "4">> \o secret_access_key.s \o
                           <<"|">> \o d \o <<"]">>
             IN  SubSeq(frame[t].signing_key, 4, Len(k_date) + 3) = k_date
          /\ Split(CredentialField(frame[t].result), <<"/">>)[2] = d

\* A call that returned although the clock ticked while it ran.
C8_Witness ==
  /\ Done(1)
  /\ frame[1].now = StartTime
  /\ clock # StartTime
  /\ DictGet(hdrs[1], <<"x", "-", "a", "m", "z", "-", "d", "a", "t", "e">>) = <<"2", "0", "2", "4", "1", "2", "3", "1", "T", "2", "3", "5", "9", "5", "9", "Z">>
  /\ Split(CredentialField(frame[1].result), <<"/">>)[2] = <<"2", "0", "2", "4", "1", "2", "3", "1">>

-----------------------------------------------------------------------------
(* C9 *)

\* C9: the signing key is four chained HMAC-SHA256 steps over date, region,
\* service and terminator, each keyed by the previous output,
\* HMAC(HMAC(HMAC(HMAC("AWS4" + secret, date), region), service),
\* "aws4_request"), and the returned signature is the hex of one further
\* HMAC-SHA256 of the string-to-sign keyed by that signing key.
C9_SigningKeyChain ==
  \A t \in Threads :
    Done(t) =>
      LET k == HmacSha256(
                 HmacSha256(
                   HmacSha256(
                     HmacSha256(<<"A", "W", "S", "4">> \o secret_access_key.s,
                                frame[t].date_stamp),
                     <<"a", "p", "-", "s", "i", "n", "g", "a", "p", "o", "r", "e", "-", "1">>),
                   <<"c", "v">>),
                 <<"a", "w", "s", "4", "_", "r", "e", "q", "u", "e", "s", "t">>)
      IN  /\ frame[t].signing_key = k
          /\ calls[t].hmac = 5
          /\ SignatureOf(frame[t].result)
               = Hex(HmacSha256(k, frame[t].string_to_sign))

C9_Witness ==
  /\ Done(1)
  /\ secret_access_key = Str(<<"t", "e", "s", "t", "s", "e", "c", "r", "e", "t">>)
  /\ frame[1].date_stamp = <<"2", "0", "2", "5", "0", "1", "0", "1">>
  /\ calls[1].hmac = 5
  /\ frame[1].signing_key # << >>

====
